---------------------------- MODULE Spec2Model ----------------------------
(***************************************************************************)
(* Model of ape-party-helper (src/main.go, lines 1-518; the earlier        *)
(* version of main is lines 762-784).                                     *)
(*                                                                         *)
(* Two parts share this module:                                            *)
(*   - the request handlers /pac, /global, /off (validation, service       *)
(*     enumeration, per-service command sequences, verdict): SpecApply    *)
(*     for one request, SpecConc for two concurrent requests and the       *)
(*     proxy configuration they leave;                                     *)
(*   - the socket lifecycle (initial creation, SIGUSR1 recheck and         *)
(*     rebinding, SIGINT/SIGTERM shutdown): SpecSock and SpecSockFair.     *)
(*                                                                         *)
(* Text is modelled as a sequence of one-character strings, so that the    *)
(* string functions of the code (ContainsAny, Split, TrimSpace, ...) are   *)
(* computed character by character.                                        *)
(***************************************************************************)
EXTENDS Integers, Sequences, FiniteSets, TLC

(***************************************************************************)
(* Bounds of the model.                                                    *)
(***************************************************************************)
\* Largest number of lines of the service-listing output.
MaxLines == 3

\* Largest number of listeners the process creates (the initial one and the
\* rebound ones); a further net.Listen fails.
MaxListeners == 3

\* Largest number of requests in flight on the connections of one listener.
MaxInflight == 1

(***************************************************************************)
(* Go's strings package, on sequences of characters.                      *)
(***************************************************************************)
\* A sequence of characters as a TLA+ string (the argument of a command).
RECURSIVE Str(_)
Str(s) == IF s = <<>> THEN "" ELSE Head(s) \o Str(Tail(s))

\* strings.ContainsAny(s, chars)
ContainsAny(s, chars) == \E i \in 1..Len(s) : s[i] \in chars

\* strings.HasPrefix(s, p)
HasPrefix(s, p) == Len(s) >= Len(p) /\ SubSeq(s, 1, Len(p)) = p

\* strings.HasSuffix(s, p)
HasSuffix(s, p) ==
    Len(s) >= Len(p) /\ SubSeq(s, Len(s) - Len(p) + 1, Len(s)) = p

\* strings.Index(s, sub): the first position of sub in s (1-based), 0 if none.
Index(s, sub) ==
    LET hits == {i \in 1..(Len(s) - Len(sub) + 1) :
                    SubSeq(s, i, i + Len(sub) - 1) = sub}
    IN  IF hits = {} THEN 0
        ELSE CHOOSE i \in hits : \A j \in hits : i <= j

\* strings.Contains(s, sub)
Contains(s, sub) == Index(s, sub) # 0

\* strings.Split(s, sep) for a non-empty separator: every piece is kept,
\* the empty ones too, and Split("", sep) is one empty piece.
RECURSIVE Split(_, _)
Split(s, sep) ==
    LET i == Index(s, sep)
    IN  IF i = 0 THEN <<s>>
        ELSE <<SubSeq(s, 1, i - 1)>>
                 \o Split(SubSeq(s, i + Len(sep), Len(s)), sep)

\* strings.SplitN(s, sep, 2): cut at the first separator only.
SplitN2(s, sep) ==
    LET i == Index(s, sep)
    IN  IF i = 0 THEN <<s>>
        ELSE <<SubSeq(s, 1, i - 1), SubSeq(s, i + Len(sep), Len(s))>>

\* The white space strings.TrimSpace removes.
WhiteSpace == {" ", "\t", "\n", "\r"}

\* strings.TrimSpace(s)
TrimSpace(s) ==
    LET keep == {i \in 1..Len(s) : s[i] \notin WhiteSpace}
    IN  IF keep = {} THEN <<>>
        ELSE LET lo == CHOOSE i \in keep : \A j \in keep : i <= j
                 hi == CHOOSE i \in keep : \A j \in keep : j <= i
             IN  SubSeq(s, lo, hi)

\* strings.TrimPrefix(s, p)
TrimPrefix(s, p) ==
    IF HasPrefix(s, p) THEN SubSeq(s, Len(p) + 1, Len(s)) ELSE s

(***************************************************************************)
(* Input Validator.                                                        *)
(***************************************************************************)
\* The backquote character, which a string of this module cannot hold.
Backquote == "BACKQUOTE"

\* The character set of validatePacURL (line 48).
PacIllegal ==
    {"&", "|", ";", Backquote, "$", "(", ")", "{", "}", "[", "]", "<", ">", "\\"}

\* The character set of validateGlobalProxy (lines 66 and 89): no < and >.
GlobalIllegal ==
    {"&", "|", ";", Backquote, "$", "(", ")", "{", "}", "[", "]", "\\"}

Letters ==
    {"a", "b", "c", "d", "e", "f", "g", "h", "i", "j", "k", "l", "m", "n",
     "o", "p", "q", "r", "s", "t", "u", "v", "w", "x", "y", "z"}

Digits == {"0", "1", "2", "3", "4", "5", "6", "7", "8", "9"}

\* net/url getScheme, as url.Parse applies it: the text before the first
\* ":" when it is made of letters, then letters, digits, "+", "-", ".";
\* "" when there is no scheme; "error" when the text starts with ":".
RECURSIVE SchemeFrom(_, _)
SchemeFrom(s, i) ==
    IF i > Len(s) THEN <<>>
    ELSE IF s[i] \in Letters THEN SchemeFrom(s, i + 1)
    ELSE IF s[i] \in Digits \cup {"+", "-", "."}
         THEN IF i = 1 THEN <<>> ELSE SchemeFrom(s, i + 1)
    ELSE IF s[i] = ":"
         THEN IF i = 1 THEN <<"error">> ELSE SubSeq(s, 1, i - 1)
    ELSE <<>>

UrlScheme(s) == SchemeFrom(s, 1)

\* validatePacURL (lines 47-62): TRUE when the URL is accepted.  url.Parse
\* fails here only on a missing scheme before ":"; its other errors need
\* characters the inputs of this model do not hold.
validatePacURL(urlStr) ==
    /\ ~ContainsAny(urlStr, PacIllegal)
    /\ UrlScheme(urlStr) # <<"error">>
    /\ Str(UrlScheme(urlStr)) \in {"http", "https"}

\* strconv.Atoi(port) succeeds (line 70): an optional sign, then one or
\* more decimal digits (the texts of this model are far below 64 bits).
AtoiOk(port) ==
    LET body == IF port # <<>> /\ port[1] \in {"+", "-"}
                THEN Tail(port) ELSE port
    IN  /\ body # <<>>
        /\ \A i \in 1..Len(body) : body[i] \in Digits

\* The split of the bypass string in validateGlobalProxy (lines 76-81): on
\* commas when there is one, on spaces otherwise.
SplitBypass(bypass) ==
    IF Contains(bypass, <<",">>) THEN Split(bypass, <<",">>)
                                 ELSE Split(bypass, <<" ">>)

\* The tokens the loop of validateGlobalProxy checks (lines 83-87): each
\* one trimmed, the empty ones skipped.
RECURSIVE CheckedTokens(_)
CheckedTokens(domains) ==
    IF domains = <<>> THEN <<>>
    ELSE LET domain == TrimSpace(Head(domains))
         IN  (IF domain = <<>> THEN <<>> ELSE <<domain>>)
                 \o CheckedTokens(Tail(domains))

checkedDomains(bypass) == CheckedTokens(SplitBypass(bypass))

\* The check of one bypass token (lines 84-94): TRUE when it is accepted.
BypassTokenOk(domain) ==
    LET d == TrimSpace(domain)
    IN  \/ d = <<>>
        \/ ~ContainsAny(d, GlobalIllegal)
        \/ HasPrefix(d, <<"<">>) /\ HasSuffix(d, <<">">>)

\* validateGlobalProxy (lines 65-98): TRUE when the parameters are accepted.
validateGlobalProxy(host, port, bypass) ==
    /\ ~ContainsAny(host, GlobalIllegal)
    /\ AtoiOk(port)
    /\ LET domains == SplitBypass(bypass)
       IN  \A i \in 1..Len(domains) : BypassTokenOk(domains[i])

(***************************************************************************)
(* Service Enumerator.                                                     *)
(***************************************************************************)
\* Whether a line of the listing is taken as a service line (line 114).
IsServiceLine(line) ==
    /\ HasPrefix(line, <<"(">>)
    /\ Contains(line, <<")">>)
    /\ ~Contains(line,
                 <<"H", "a", "r", "d", "w", "a", "r", "e", " ",
                   "P", "o", "r", "t", ":">>)

\* The services one line contributes (lines 114-126): none or one.
LineServices(line) ==
    IF ~IsServiceLine(line) THEN <<>>
    ELSE LET parts == SplitN2(line, <<")", " ">>)
         IN  IF Len(parts) # 2 THEN <<>>
             ELSE LET service == TrimSpace(parts[2])
                  IN  IF service # <<>> /\ service # <<"*">>
                      THEN <<Str(TrimSpace(TrimPrefix(service, <<"*">>)))>>
                      ELSE <<>>

RECURSIVE ServicesOf(_)
ServicesOf(lines) ==
    IF lines = <<>> THEN <<>>
    ELSE LineServices(Head(lines)) \o ServicesOf(Tail(lines))

\* The parse of getNetworkServices (lines 108-127) on the command's output.
ParseServices(output) == ServicesOf(Split(output, <<"\n">>))

\* getNetworkServices with a bug: an empty list is returned without error.
getNetworkServicesAllowEmpty(cmdOk, output) ==
    IF ~cmdOk THEN [err |-> "exit status 1", services |-> <<>>]
    ELSE [err |-> "", services |-> ParseServices(output)]

\* getNetworkServices (lines 101-134): the command failed (cmdOk = FALSE) or
\* printed output.  err is the text of the error returned, "" for nil.
getNetworkServices(cmdOk, output) ==
    IF ~cmdOk THEN [err |-> "exit status 1", services |-> <<>>]
    ELSE IF Len(ParseServices(output)) = 0
         THEN [err |-> "no network services found", services |-> <<>>]
    ELSE [err |-> "", services |-> ParseServices(output)]

(***************************************************************************)
(* Proxy Configuration Applier: the command sequences.                     *)
(***************************************************************************)
\* turnOffCommands with a bug: the web proxies are disabled before the
\* automatic-proxy state.
turnOffCommandsSwapped(service) ==
    << <<"networksetup", "-setwebproxystate", service, "off">>,
       <<"networksetup", "-setsecurewebproxystate", service, "off">>,
       <<"networksetup", "-setautoproxystate", service, "off">>,
       <<"networksetup", "-setproxyautodiscovery", service, "off">>,
       <<"networksetup", "-setsocksfirewallproxystate", service, "off">> >>

\* The commands of turnOffProxies (lines 138-144), in their order.
turnOffCommands(service) ==
    << <<"networksetup", "-setautoproxystate", service, "off">>,
       <<"networksetup", "-setproxyautodiscovery", service, "off">>,
       <<"networksetup", "-setwebproxystate", service, "off">>,
       <<"networksetup", "-setsecurewebproxystate", service, "off">>,
       <<"networksetup", "-setsocksfirewallproxystate", service, "off">> >>

\* pacCommands with a bug: the automatic-proxy state is enabled before the
\* URL is set.
pacCommandsEnableFirst(service, pacURL) ==
    << <<"networksetup", "-setautoproxystate", service, "on">>,
       <<"networksetup", "-setautoproxyurl", service, Str(pacURL)>>,
       <<"networksetup", "-setproxyautodiscovery", service, "on">> >>

\* The commands setPACProxy runs after the reset (lines 163-177).
pacCommands(service, pacURL) ==
    << <<"networksetup", "-setautoproxyurl", service, Str(pacURL)>>,
       <<"networksetup", "-setautoproxystate", service, "on">>,
       <<"networksetup", "-setproxyautodiscovery", service, "on">> >>

\* The three proxy commands of setGlobalProxy (lines 188-192).
globalCommands(service, host, port) ==
    << <<"networksetup", "-setwebproxy", service, Str(host), Str(port)>>,
       <<"networksetup", "-setsecurewebproxy", service, Str(host), Str(port)>>,
       <<"networksetup", "-setsocksfirewallproxy", service, Str(host),
         Str(port)>> >>

\* The trimmed, non-blank tokens of setGlobalProxy (lines 212-218).
RECURSIVE CleanTokens(_)
CleanTokens(domains) ==
    IF domains = <<>> THEN <<>>
    ELSE LET d == TrimSpace(Head(domains))
         IN  (IF d # <<>> THEN <<Str(d)>> ELSE <<>>)
                 \o CleanTokens(Tail(domains))

\* SplitBypassApplied with a bug: the string is always split on spaces.
SplitBypassOnSpaces(bypass) == Split(bypass, <<" ">>)

\* The split of the bypass string in setGlobalProxy (lines 204-209): on
\* commas when there is one, on spaces otherwise.
SplitBypassApplied(bypass) ==
    IF Contains(bypass, <<",">>) THEN Split(bypass, <<",">>)
                                 ELSE Split(bypass, <<" ">>)

cleanDomains(bypass) == CleanTokens(SplitBypassApplied(bypass))

\* bypassCommands with a bug: the command is issued for every non-empty
\* bypass string, also when no token is left.
bypassCommandsUnchecked(service, bypass) ==
    IF bypass # <<>>
    THEN << <<"networksetup", "-setproxybypassdomains", service>>
                \o cleanDomains(bypass) >>
    ELSE <<>>

\* The bypass command of setGlobalProxy (lines 202-228): none or one.
bypassCommands(service, bypass) ==
    IF bypass # <<>>
    THEN IF Len(cleanDomains(bypass)) > 0
         THEN << <<"networksetup", "-setproxybypassdomains", service>>
                     \o cleanDomains(bypass) >>
         ELSE <<>>
    ELSE <<>>

(***************************************************************************)
(* Inputs of the handlers.                                                 *)
(***************************************************************************)
\* PAC urls: accepted (http), wrong scheme, illegal character, no scheme.
UrlSet ==
    { <<"h", "t", "t", "p", ":", "/", "/", "p">>,
      <<"f", "t", "p", ":", "/", "/", "p">>,
      <<"h", "t", "t", "p", ":", "/", "/", "p", ";", "x">>,
      <<"p">> }

HostSet == { <<"h">>, <<"h", ";">> }

\* Port texts: a number, not a number, a signed number.
PortSet == { <<"8">>, <<"x">>, <<"-", "1">> }

\* Bypass strings: none, blank, comma list, space list, comma with spaces,
\* reserved token, illegal token, token with an angle bracket inside.
BypassSet ==
    { <<>>,
      <<" ">>,
      <<"a", ",", "b">>,
      <<"a", " ", "b">>,
      <<"a", ",", " ", "b", " ", "c">>,
      <<"<", "l", ">">>,
      <<"a", "$">>,
      <<"a", "<", "b">> }

\* Lines the service listing is made of: two service lines (the second with
\* a disabled marker), a hardware-port line, a blank line, a bare marker and
\* a line of plain text.
LineSet ==
    { <<"(", "1", ")", " ", "W">>,
      <<"(", "2", ")", " ", "*", "E">>,
      <<"(", "H", "a", "r", "d", "w", "a", "r", "e", " ",
        "P", "o", "r", "t", ":", " ", "W", ")">>,
      <<>>,
      <<"(", "3", ")", " ", "*">>,
      <<"x">> }

\* All listings of at most MaxLines lines.
Listings == UNION {[1..n -> LineSet] : n \in 0..MaxLines}

\* The output of the listing command: each line ends with a newline.
RECURSIVE JoinLines(_)
JoinLines(lines) ==
    IF lines = <<>> THEN <<>>
    ELSE Head(lines) \o <<"\n">> \o JoinLines(Tail(lines))

(***************************************************************************)
(* Request Router: the state of one request and the steps of its handler.  *)
(***************************************************************************)
Reqs == {1, 2}

\* A request that has not arrived.
IdleReq ==
    [pc |-> "idle", kind |-> "none", decodeOk |-> TRUE,
     url |-> <<>>, host |-> <<>>, port |-> <<>>, bypass |-> <<>>,
     enumCalls |-> 0, services |-> <<>>, idx |-> 0, attempted |-> <<>>,
     svcLog |-> <<>>, callErr |-> FALSE,
     successCount |-> 0, errorMessages |-> <<>>,
     status |-> 0, outcome |-> "none", detail |-> ""]

\* The commands one service is driven through (turnOffProxies, setPACProxy,
\* setGlobalProxy), each stopping at its first failing command.
ServiceCommands(q, service) ==
    CASE q.kind = "off" -> turnOffCommands(service)
      [] q.kind = "pac" ->
             turnOffCommands(service) \o pacCommands(service, q.url)
      [] q.kind = "global" ->
             turnOffCommands(service)
                 \o globalCommands(service, q.host, q.port)
                 \o bypassCommands(service, q.bypass)

\* c.ShouldBindJSON failed: 400 and return (lines 250-255, 303-308).
DecodeStep(q) ==
    IF q.decodeOk
    THEN [q EXCEPT !.pc = "validate"]
    ELSE [q EXCEPT !.pc = "done", !.status = 400, !.outcome = "badrequest"]

\* The Validator's verdict on the payload of q.
PayloadValid(q) ==
    IF q.kind = "pac" THEN validatePacURL(q.url)
    ELSE validateGlobalProxy(q.host, q.port, q.bypass)

\* ValidateStep with a bug: the return after the 400 is missing, so the
\* handler goes on to the enumeration.
ValidateStepNoReturn(q) ==
    IF PayloadValid(q)
    THEN [q EXCEPT !.pc = "enumerate"]
    ELSE [q EXCEPT !.pc = "enumerate", !.status = 400,
                   !.outcome = "badrequest"]

\* Validation failed: 400 and return (lines 258-264, 311-316).
ValidateStep(q) ==
    IF PayloadValid(q)
    THEN [q EXCEPT !.pc = "enumerate"]
    ELSE [q EXCEPT !.pc = "done", !.status = 400, !.outcome = "badrequest"]

\* Verdict with a bug: any failed service makes the whole request an error.
VerdictAllOrNothing(successCount, nErrors) ==
    IF successCount > 0 /\ nErrors = 0
    THEN [status |-> 200, outcome |-> "full"]
    ELSE [status |-> 500, outcome |-> "failed"]

\* The verdict (lines 286-297, 337-348, 372-384).
Verdict(successCount, nErrors) ==
    IF successCount > 0
    THEN IF nErrors > 0 THEN [status |-> 200, outcome |-> "partial"]
                        ELSE [status |-> 200, outcome |-> "full"]
    ELSE [status |-> 500, outcome |-> "failed"]

\* The call of getNetworkServices, its error rendered as 500, and the start
\* of the loop over the services (lines 267-278, 318-329, 352-363).  Over no
\* service at all the loop body would never run and the verdict would be
\* that of zero successes.
EnumerateStep(q, cmdOk, output) ==
    LET res == getNetworkServices(cmdOk, output)
    IN  IF res.err # ""
        THEN [q EXCEPT !.pc = "done", !.enumCalls = @ + 1,
                       !.status = 500, !.outcome = "enumerror",
                       !.detail = res.err]
        ELSE IF Len(res.services) = 0
        THEN [q EXCEPT !.pc = "done", !.enumCalls = @ + 1,
                       !.status = Verdict(0, 0).status,
                       !.outcome = Verdict(0, 0).outcome]
        ELSE [q EXCEPT !.pc = "call", !.enumCalls = @ + 1,
                       !.services = res.services, !.idx = 1,
                       !.attempted = <<res.services[1]>>]

\* The command the call for the current service runs next.
CurrentCommand(q) ==
    ServiceCommands(q, q.services[q.idx])[Len(q.svcLog) + 1]

(***************************************************************************)
(* The system proxy configuration, as the networksetup commands of         *)
(* turnOffProxies, setPACProxy and setGlobalProxy change it.  For each      *)
(* service that is observed: the state of the automatic proxy (PAC), of    *)
(* the auto discovery and of the web, secure web and SOCKS proxies, the    *)
(* PAC url, the proxy addresses and the bypass domains.                    *)
(***************************************************************************)
UnsetConfig ==
    [auto |-> "unset", discovery |-> "unset", web |-> "unset",
     secure |-> "unset", socks |-> "unset", url |-> "",
     webAddr |-> <<>>, secureAddr |-> <<>>, socksAddr |-> <<>>,
     bypass |-> <<>>]

\* No service is observed.
NoConfig == [s \in {} |-> UnsetConfig]

\* What one successful command does to the configuration of its service:
\* a state option sets the state it names; -setautoproxyurl sets the url
\* and turns the automatic proxy on; -setwebproxy, -setsecurewebproxy and
\* -setsocksfirewallproxy set the address and turn that proxy on;
\* -setproxybypassdomains replaces the bypass domains.
Effect(cfg, argv) ==
    LET opt == argv[2]
    IN  CASE opt = "-setautoproxystate" -> [cfg EXCEPT !.auto = argv[4]]
          [] opt = "-setproxyautodiscovery" ->
                 [cfg EXCEPT !.discovery = argv[4]]
          [] opt = "-setwebproxystate" -> [cfg EXCEPT !.web = argv[4]]
          [] opt = "-setsecurewebproxystate" ->
                 [cfg EXCEPT !.secure = argv[4]]
          [] opt = "-setsocksfirewallproxystate" ->
                 [cfg EXCEPT !.socks = argv[4]]
          [] opt = "-setautoproxyurl" ->
                 [cfg EXCEPT !.url = argv[4], !.auto = "on"]
          [] opt = "-setwebproxy" ->
                 [cfg EXCEPT !.web = "on", !.webAddr = <<argv[4], argv[5]>>]
          [] opt = "-setsecurewebproxy" ->
                 [cfg EXCEPT !.secure = "on",
                             !.secureAddr = <<argv[4], argv[5]>>]
          [] opt = "-setsocksfirewallproxy" ->
                 [cfg EXCEPT !.socks = "on",
                             !.socksAddr = <<argv[4], argv[5]>>]
          [] opt = "-setproxybypassdomains" ->
                 [cfg EXCEPT !.bypass = SubSeq(argv, 4, Len(argv))]
          [] OTHER -> cfg

\* cmd.Run() of one command: when it succeeds and its service is observed,
\* the configuration of the service changes.
Configure(net, argv, ok) ==
    IF ok /\ argv[3] \in DOMAIN net
    THEN [net EXCEPT ![argv[3]] = Effect(@, argv)]
    ELSE net

\* One external command of the current service: cmd.Run() returns an error
\* (ok = FALSE) or not.  The first error returns from the call; so does the
\* last command (lines 146-153, 158-179, 184-230).
ExecStep(q, ok) ==
    LET cmds == ServiceCommands(q, q.services[q.idx])
        n    == Len(q.svcLog) + 1
        log  == Append(q.svcLog, [argv |-> CurrentCommand(q), ok |-> ok])
    IN  IF ~ok
        THEN [q EXCEPT !.svcLog = log, !.callErr = TRUE, !.pc = "returned"]
        ELSE IF n = Len(cmds)
        THEN [q EXCEPT !.svcLog = log, !.callErr = FALSE, !.pc = "returned"]
        ELSE [q EXCEPT !.svcLog = log]

\* LoopContinues with a bug: the loop breaks at the first failed service.
LoopStopsAtError(q) == q.idx < Len(q.services) /\ ~q.callErr

\* Whether the loop over the services goes on to a next service: the range
\* loop has no break (lines 278, 329, 363).
LoopContinues(q) == q.idx < Len(q.services)

\* The body of the loop after the call returned, then the next service or,
\* after the last one, the response (lines 278-297, 329-348, 363-384).
RecordStep(q) ==
    LET sc   == IF q.callErr THEN q.successCount ELSE q.successCount + 1
        errs == IF q.callErr
                THEN Append(q.errorMessages, q.services[q.idx])
                ELSE q.errorMessages
    IN  IF LoopContinues(q)
        THEN [q EXCEPT !.successCount = sc, !.errorMessages = errs,
                       !.idx = @ + 1,
                       !.attempted = Append(@, q.services[q.idx + 1]),
                       !.svcLog = <<>>, !.callErr = FALSE, !.pc = "call"]
        ELSE [q EXCEPT !.successCount = sc, !.errorMessages = errs,
                       !.pc = "done",
                       !.status = Verdict(sc, Len(errs)).status,
                       !.outcome = Verdict(sc, Len(errs)).outcome]

(***************************************************************************)
(* Socket Lifecycle Manager: the Server object, the endpoint path and the  *)
(* listeners, as one record.                                               *)
(*   mainpc     position of main (Start, createSocket, shutdown)           *)
(*   hpc        position of the goroutine of startSignalHandler            *)
(*   sigChan    notifications buffered in sigChan (capacity 1)             *)
(*   path       what is at s.addr on the filesystem                        *)
(*   lstate     each listener: "none", "open" or "closed"                  *)
(*   unlinked   each listener: its Close has already unlinked the path     *)
(*   servePc    each listener: its Serve goroutine ("none", "spawned",     *)
(*              "serving", "stopped")                                      *)
(*   sListener  s.listener: <<>> for nil, <<l>> for listener l             *)
(*   assigned   the listeners ever stored in s.listener                    *)
(*   srvShutdown  s.srv is shutting down                                   *)
(*   inflight   each listener: requests in flight on its connections       *)
(*   newL       the local variable listener of recreateListener            *)
(*   nextId     the number of listeners created so far                     *)
(*   lastStat   what the os.Stat of the last recheck found                 *)
(*   removed    main has run os.RemoveAll(server.addr) at shutdown         *)
(*   atSignal   s.listener at the moment main received from quit           *)
(*   permOk     each listener: os.Chmod succeeded on its socket file       *)
(*   exitCode   the exit status of the process                             *)
(***************************************************************************)
Lids == 0..(MaxListeners - 1)

\* Contents of the endpoint path.
Absent == [kind |-> "absent", owner |-> 0, perm |-> FALSE]
Stale == [kind |-> "file", owner |-> 0, perm |-> FALSE]
SocketOf(l) == [kind |-> "socket", owner |-> l, perm |-> FALSE]

\* The state after NewServer (lines 233-244, 495).
NewServer(p) ==
    [mainpc |-> "start", hpc |-> "off", sigChan |-> 0, path |-> p,
     lstate |-> [l \in Lids |-> "none"],
     unlinked |-> [l \in Lids |-> FALSE],
     servePc |-> [l \in Lids |-> "none"],
     sListener |-> <<>>, assigned |-> {}, srvShutdown |-> FALSE,
     inflight |-> [l \in Lids |-> 0],
     newL |-> 0, nextId |-> 0, lastStat |-> "none",
     removed |-> FALSE, atSignal |-> <<>>,
     permOk |-> [l \in Lids |-> FALSE], exitCode |-> 0]

\* The process has ended.
Ended(k) == k.mainpc \in {"failed", "forced", "exited"}

\* The end of the process: the kernel closes its sockets (the socket file
\* stays) and its goroutines are gone.
Exit(k, pc, code) ==
    [k EXCEPT !.mainpc = pc, !.exitCode = code,
              !.lstate = [l \in Lids |->
                             IF k.lstate[l] = "open" THEN "closed"
                             ELSE k.lstate[l]],
              !.servePc = [l \in Lids |->
                              IF k.servePc[l] \in {"spawned", "serving"}
                              THEN "stopped" ELSE k.servePc[l]]]

\* Close of a listener made by net.Listen: its first Close unlinks the path,
\* whatever is there (the reason recreateListener gives for not closing the
\* old listener, lines 481-483), and its accept loop ends.
CloseListener(k, l) ==
    [k EXCEPT !.lstate[l] = "closed",
              !.unlinked[l] = TRUE,
              !.path = IF ~k.unlinked[l] THEN Absent ELSE k.path,
              !.servePc[l] = IF k.servePc[l] = "serving" THEN "stopped"
                             ELSE k.servePc[l]]

\* Start: os.RemoveAll(s.addr) (lines 417-419, 497-499).
StartRemoveStep(k, ok) ==
    IF ok THEN [k EXCEPT !.path = Absent, !.mainpc = "listen"]
    ELSE Exit(k, "failed", 1)

\* createSocket: net.Listen and s.listener = listener (lines 390-396).
CreateListenStep(k, ok) ==
    IF ok /\ k.path.kind = "absent"
    THEN [k EXCEPT !.lstate[0] = "open", !.path = SocketOf(0),
                   !.sListener = <<0>>, !.assigned = {0}, !.nextId = 1,
                   !.mainpc = "chmod"]
    ELSE Exit(k, "failed", 1)

\* CreateChmodStep with a bug: the error of os.Chmod is ignored.
CreateChmodIgnoresError(k, ok) ==
    IF ok /\ k.path.kind # "absent"
    THEN [k EXCEPT !.path.perm = TRUE, !.permOk[0] = TRUE,
                   !.mainpc = "serve"]
    ELSE [k EXCEPT !.mainpc = "serve"]

\* createSocket: os.Chmod(s.addr, 0666) (lines 399-401).
CreateChmodStep(k, ok) ==
    IF ok /\ k.path.kind # "absent"
    THEN [k EXCEPT !.path.perm = TRUE, !.permOk[0] = TRUE,
                   !.mainpc = "serve"]
    ELSE Exit(k, "failed", 1)

\* createSocket: go s.srv.Serve(listener) (lines 404-410).
CreateServeStep(k) ==
    [k EXCEPT !.servePc[0] = "spawned", !.mainpc = "install"]

\* startSignalHandler, then main registers quit and waits (lines 427-429,
\* 434, 501-503).
InstallStep(k) == [k EXCEPT !.hpc = "spawned", !.mainpc = "wait"]

\* Serve on listener l begins: it registers the listener with its server
\* and accepts; a server already shut down, or a closed listener, makes it
\* return, closing the listener (lines 405, 476).
ServeStartStep(k, l) ==
    IF l = 0 /\ k.srvShutdown
    THEN [CloseListener(k, l) EXCEPT !.servePc[l] = "stopped"]
    ELSE IF k.lstate[l] # "open"
    THEN [k EXCEPT !.servePc[l] = "stopped"]
    ELSE [k EXCEPT !.servePc[l] = "serving"]

\* server.srv.Shutdown(ctx) begins: the listeners registered with s.srv are
\* closed; it returns at once when no request is in flight on the
\* connections of s.srv (line 509).
ShutdownStep(k) ==
    LET c == IF k.servePc[0] = "serving" THEN CloseListener(k, 0) ELSE k
    IN  [c EXCEPT !.srvShutdown = TRUE,
                  !.mainpc = IF k.inflight[0] = 0 THEN "close" ELSE "grace"]

\* Shutdown returns: nil when the connections of s.srv are idle, the context
\* error when the 5 seconds are over, and then os.Exit(1) (lines 505-511).
GraceStep(k, expired) ==
    IF expired THEN Exit(k, "forced", 1)
    ELSE [k EXCEPT !.mainpc = "close"]

\* server.listener.Close() on the listener l read from s.listener
\* (lines 513-515).
CloseCurrentStep(k, l) ==
    IF k.lstate[l] = "open"
    THEN [CloseListener(k, l) EXCEPT !.mainpc = "remove"]
    ELSE [k EXCEPT !.mainpc = "remove"]

\* os.RemoveAll(server.addr), its error ignored (line 517).
FinalRemoveStep(k, ok) ==
    [k EXCEPT !.removed = TRUE,
              !.path = IF ok THEN Absent ELSE k.path,
              !.mainpc = "return"]

\* main returns (line 518).
ReturnStep(k) == Exit(k, "exited", 0)

\* RecheckNeedsRebind with a bug: the test is inverted.
RecheckInverted(exists) == exists

\* RecheckNeedsRebind with a bug: every notification rebinds.
RecheckAlways(exists) == TRUE

\* The test of the recheck: os.IsNotExist(err) of os.Stat (line 439).
RecheckNeedsRebind(exists) == ~exists

\* One recheck: os.Stat(s.addr), then recreateListener or nothing
\* (lines 438-442, 449).
StatStep(k) ==
    LET exists == k.path.kind # "absent"
    IN  [k EXCEPT !.lastStat = IF exists THEN "exists" ELSE "missing",
                  !.hpc = IF RecheckNeedsRebind(exists) THEN "rb_remove"
                          ELSE "idle"]

\* recreateListener: os.RemoveAll(s.addr), its error ignored (line 452).
RebindRemoveStep(k, ok) ==
    [k EXCEPT !.path = IF ok THEN Absent ELSE k.path, !.hpc = "rb_listen"]

\* recreateListener: net.Listen (lines 455-458).
RebindListenStep(k, ok) ==
    IF ok /\ k.path.kind = "absent" /\ k.nextId < MaxListeners
    THEN [k EXCEPT !.lstate[k.nextId] = "open",
                   !.path = SocketOf(k.nextId),
                   !.newL = k.nextId, !.nextId = k.nextId + 1,
                   !.hpc = "rb_chmod"]
    ELSE [k EXCEPT !.hpc = "rb_err"]

\* RebindChmodStep with a bug: the error of os.Chmod is ignored.
RebindChmodIgnoresError(k, ok) ==
    IF ok /\ k.path.kind # "absent"
    THEN [k EXCEPT !.path.perm = TRUE, !.permOk[k.newL] = TRUE,
                   !.hpc = "rb_assign"]
    ELSE [k EXCEPT !.hpc = "rb_assign"]

\* recreateListener: os.Chmod, on failure listener.Close() (lines 461-464).
RebindChmodStep(k, ok) ==
    IF ok /\ k.path.kind # "absent"
    THEN [k EXCEPT !.path.perm = TRUE, !.permOk[k.newL] = TRUE,
                   !.hpc = "rb_assign"]
    ELSE [CloseListener(k, k.newL) EXCEPT !.hpc = "rb_err"]

\* RebindAssignStep with a bug: the old listener is closed when the new one
\* takes its place.
RebindAssignClosesOld(k) ==
    [CloseListener(k, k.sListener[1]) EXCEPT
         !.sListener = <<k.newL>>,
         !.assigned = k.assigned \cup {k.newL},
         !.servePc[k.newL] = "spawned",
         !.hpc = "rb_sleep"]

\* recreateListener: s.listener = listener, a new http.Server and its Serve
\* goroutine; the old listener is left open (lines 467-483).
RebindAssignStep(k) ==
    [k EXCEPT !.sListener = <<k.newL>>,
              !.assigned = k.assigned \cup {k.newL},
              !.servePc[k.newL] = "spawned",
              !.hpc = "rb_sleep"]

\* recreateListener: the sleep, the last os.Stat and the return; the caller
\* ignores the result (lines 440, 486-491).
RebindVerifyStep(k) == [k EXCEPT !.hpc = "idle"]

\* recreateListener returns the error of net.Listen or os.Chmod
\* (lines 457, 463).
RebindErrStep(k) == [k EXCEPT !.hpc = "idle"]

VARIABLES
    req,    \* req[r]: the state of request r and of its handler
    sock,   \* the Server, the endpoint path and the listeners
    netcfg  \* the proxy configuration of the services that are observed

vars == <<req, sock, netcfg>>

(***************************************************************************)
(* Actions of the request handlers.                                        *)
(***************************************************************************)
\* A request arrives: its route and its body.
Receive(r) ==
    /\ req[r].pc = "idle"
    /\ \/ \E d \in BOOLEAN, u \in UrlSet :
              req' = [req EXCEPT ![r] =
                         [@ EXCEPT !.pc = "decode", !.kind = "pac",
                                   !.decodeOk = d,
                                   !.url = IF d THEN u ELSE <<>>]]
       \/ \E d \in BOOLEAN, h \in HostSet, p \in PortSet, b \in BypassSet :
              req' = [req EXCEPT ![r] =
                         [@ EXCEPT !.pc = "decode", !.kind = "global",
                                   !.decodeOk = d,
                                   !.host = IF d THEN h ELSE <<>>,
                                   !.port = IF d THEN p ELSE <<>>,
                                   !.bypass = IF d THEN b ELSE <<>>]]
       \/ req' = [req EXCEPT ![r] =
                     [@ EXCEPT !.pc = "enumerate", !.kind = "off"]]
    /\ UNCHANGED <<sock, netcfg>>

Decode(r) ==
    /\ req[r].pc = "decode"
    /\ req' = [req EXCEPT ![r] = DecodeStep(@)]
    /\ UNCHANGED <<sock, netcfg>>

Validate(r) ==
    /\ req[r].pc = "validate"
    /\ req' = [req EXCEPT ![r] = ValidateStep(@)]
    /\ UNCHANGED <<sock, netcfg>>

Enumerate(r) ==
    /\ req[r].pc = "enumerate"
    /\ \E cmdOk \in BOOLEAN, lines \in Listings :
           req' = [req EXCEPT ![r] =
                      EnumerateStep(@, cmdOk, JoinLines(lines))]
    /\ UNCHANGED <<sock, netcfg>>

Exec(r) ==
    /\ req[r].pc = "call"
    /\ \E ok \in BOOLEAN :
           /\ req' = [req EXCEPT ![r] = ExecStep(@, ok)]
           /\ netcfg' = Configure(netcfg, CurrentCommand(req[r]), ok)
    /\ UNCHANGED sock

Record(r) ==
    /\ req[r].pc = "returned"
    /\ req' = [req EXCEPT ![r] = RecordStep(@)]
    /\ UNCHANGED <<sock, netcfg>>

\* The requests are taken with the socket as NewServer leaves it: the
\* handlers read and write nothing of it.
InitApply ==
    /\ req = [r \in Reqs |-> IdleReq]
    /\ sock = NewServer(Absent)
    /\ netcfg = NoConfig

\* One request, handled from its arrival to its response.
NextApply ==
    \/ Receive(1)
    \/ Decode(1)
    \/ Validate(1)
    \/ Enumerate(1)
    \/ Exec(1)
    \/ Record(1)

SpecApply == InitApply /\ [][NextApply]_vars

\* The listing of a machine with the one service W.
OneService == JoinLines(<< <<"(", "1", ")", " ", "W">> >>)

\* getNetworkServices on the machine with the one service W.
EnumerateOne(r) ==
    /\ req[r].pc = "enumerate"
    /\ \E cmdOk \in BOOLEAN :
           req' = [req EXCEPT ![r] = EnumerateStep(@, cmdOk, OneService)]
    /\ UNCHANGED <<sock, netcfg>>

\* Two requests on the machine with the one service W, whose configuration
\* is observed; gin runs each handler on the goroutine of its connection
\* and the handlers share no lock, so their steps interleave freely.
InitConc ==
    /\ req = [r \in Reqs |-> IdleReq]
    /\ sock = NewServer(Absent)
    /\ netcfg = [s \in {"W"} |-> UnsetConfig]

NextConc ==
    \E r \in Reqs :
        \/ Receive(r)
        \/ Decode(r)
        \/ Validate(r)
        \/ EnumerateOne(r)
        \/ Exec(r)
        \/ Record(r)

SpecConc == InitConc /\ [][NextConc]_vars


(***************************************************************************)
(* Actions of the socket lifecycle.                                        *)
(***************************************************************************)
StartRemove ==
    /\ sock.mainpc = "start"
    /\ \E ok \in BOOLEAN : sock' = StartRemoveStep(sock, ok)
    /\ UNCHANGED <<req, netcfg>>

CreateListen ==
    /\ sock.mainpc = "listen"
    /\ \E ok \in BOOLEAN : sock' = CreateListenStep(sock, ok)
    /\ UNCHANGED <<req, netcfg>>

CreateChmod ==
    /\ sock.mainpc = "chmod"
    /\ \E ok \in BOOLEAN : sock' = CreateChmodStep(sock, ok)
    /\ UNCHANGED <<req, netcfg>>

CreateServe ==
    /\ sock.mainpc = "serve"
    /\ sock' = CreateServeStep(sock)
    /\ UNCHANGED <<req, netcfg>>

Install ==
    /\ sock.mainpc = "install"
    /\ sock' = InstallStep(sock)
    /\ UNCHANGED <<req, netcfg>>

ServeStart(l) ==
    /\ ~Ended(sock)
    /\ sock.servePc[l] = "spawned"
    /\ sock' = ServeStartStep(sock, l)
    /\ UNCHANGED <<req, netcfg>>

\* SIGINT or SIGTERM is received from quit (line 503).
Terminate ==
    /\ sock.mainpc = "wait"
    /\ sock' = [sock EXCEPT !.mainpc = "shutdown",
                             !.atSignal = sock.sListener]
    /\ UNCHANGED <<req, netcfg>>

Shutdown ==
    /\ sock.mainpc = "shutdown"
    /\ sock' = ShutdownStep(sock)
    /\ UNCHANGED <<req, netcfg>>

GraceOver ==
    /\ sock.mainpc = "grace"
    /\ sock' = GraceStep(sock, sock.inflight[0] > 0)
    /\ UNCHANGED <<req, netcfg>>

\* The read of server.listener is not ordered with the writes of the
\* handler goroutine: it yields one of the listeners ever stored there.
CloseCurrent ==
    /\ sock.mainpc = "close"
    /\ \E l \in sock.assigned : sock' = CloseCurrentStep(sock, l)
    /\ UNCHANGED <<req, netcfg>>

FinalRemove ==
    /\ sock.mainpc = "remove"
    /\ \E ok \in BOOLEAN : sock' = FinalRemoveStep(sock, ok)
    /\ UNCHANGED <<req, netcfg>>

Return ==
    /\ sock.mainpc = "return"
    /\ sock' = ReturnStep(sock)
    /\ UNCHANGED <<req, netcfg>>

\* The handler goroutine starts: signal.Notify(sigChan, SIGUSR1)
\* (lines 435-436).
HandlerRegister ==
    /\ ~Ended(sock)
    /\ sock.hpc = "spawned"
    /\ sock' = [sock EXCEPT !.hpc = "idle"]
    /\ UNCHANGED <<req, netcfg>>

\* SIGUSR1 is delivered: buffered when sigChan has room (a second one is
\* dropped), ignored before signal.Notify.
SendRecheck ==
    /\ ~Ended(sock)
    /\ sock.hpc \notin {"off", "spawned"}
    /\ sock.sigChan = 0
    /\ sock' = [sock EXCEPT !.sigChan = 1]
    /\ UNCHANGED <<req, netcfg>>

\* for range sigChan (line 438).
RecheckReceive ==
    /\ ~Ended(sock)
    /\ sock.hpc = "idle"
    /\ sock.sigChan > 0
    /\ sock' = [sock EXCEPT !.sigChan = 0, !.hpc = "stat"]
    /\ UNCHANGED <<req, netcfg>>

RecheckStat ==
    /\ ~Ended(sock)
    /\ sock.hpc = "stat"
    /\ sock' = StatStep(sock)
    /\ UNCHANGED <<req, netcfg>>

RebindRemove ==
    /\ ~Ended(sock)
    /\ sock.hpc = "rb_remove"
    /\ \E ok \in BOOLEAN : sock' = RebindRemoveStep(sock, ok)
    /\ UNCHANGED <<req, netcfg>>

RebindListen ==
    /\ ~Ended(sock)
    /\ sock.hpc = "rb_listen"
    /\ \E ok \in BOOLEAN : sock' = RebindListenStep(sock, ok)
    /\ UNCHANGED <<req, netcfg>>

RebindChmod ==
    /\ ~Ended(sock)
    /\ sock.hpc = "rb_chmod"
    /\ \E ok \in BOOLEAN : sock' = RebindChmodStep(sock, ok)
    /\ UNCHANGED <<req, netcfg>>

RebindAssign ==
    /\ ~Ended(sock)
    /\ sock.hpc = "rb_assign"
    /\ sock' = RebindAssignStep(sock)
    /\ UNCHANGED <<req, netcfg>>

RebindVerify ==
    /\ ~Ended(sock)
    /\ sock.hpc = "rb_sleep"
    /\ sock' = RebindVerifyStep(sock)
    /\ UNCHANGED <<req, netcfg>>

RebindErr ==
    /\ ~Ended(sock)
    /\ sock.hpc = "rb_err"
    /\ sock' = RebindErrStep(sock)
    /\ UNCHANGED <<req, netcfg>>

\* The socket file is deleted by someone else while the process runs.
ExternalDelete ==
    /\ ~Ended(sock)
    /\ sock.path.kind = "socket"
    /\ sock' = [sock EXCEPT !.path = Absent]
    /\ UNCHANGED <<req, netcfg>>

\* A client connects to the path and sends a request: the connection goes
\* to the listener whose socket file is at the path.
Connect(l) ==
    /\ ~Ended(sock)
    /\ sock.path.kind = "socket" /\ sock.path.owner = l
    /\ sock.lstate[l] = "open" /\ sock.servePc[l] = "serving"
    /\ sock.inflight[l] < MaxInflight
    /\ sock' = [sock EXCEPT !.inflight[l] = @ + 1]
    /\ UNCHANGED <<req, netcfg>>

\* A request in flight is answered.
Finish(l) ==
    /\ ~Ended(sock)
    /\ sock.inflight[l] > 0
    /\ sock' = [sock EXCEPT !.inflight[l] = @ - 1]
    /\ UNCHANGED <<req, netcfg>>

MainStep ==
    \/ StartRemove \/ CreateListen \/ CreateChmod \/ CreateServe
    \/ Install \/ Shutdown \/ GraceOver \/ CloseCurrent \/ FinalRemove
    \/ Return

HandlerStep ==
    \/ HandlerRegister \/ RecheckReceive \/ RecheckStat \/ RebindRemove
    \/ RebindListen \/ RebindChmod \/ RebindAssign \/ RebindVerify
    \/ RebindErr

ServeStep == \E l \in Lids : ServeStart(l)

EnvStep ==
    \/ Terminate \/ SendRecheck \/ ExternalDelete
    \/ \E l \in Lids : Connect(l) \/ Finish(l)

InitSock ==
    /\ req = [r \in Reqs |-> IdleReq]
    /\ sock \in {NewServer(Absent), NewServer(Stale)}
    /\ netcfg = NoConfig

NextSock == MainStep \/ HandlerStep \/ ServeStep \/ EnvStep

SpecSock == InitSock /\ [][NextSock]_vars

\* The goroutines of the process are scheduled: main, the handler goroutine
\* and the Serve goroutines each take their next step.  Signals, clients and
\* the deletion of the file are the environment's and need not happen.
SpecSockFair ==
    /\ SpecSock
    /\ WF_vars(MainStep)
    /\ WF_vars(HandlerStep)
    /\ WF_vars(ServeStep)

(***************************************************************************)
(* Properties of the handlers, under SpecApply.                            *)
(***************************************************************************)
\* The request has gone through the loop over its services and answered.
LoopDone(q) == q.pc = "done" /\ q.attempted # <<>>

\* C1: for each of the three operations and every list of N >= 1 services,
\* the response is a full success (200) iff successCount = N, a partial
\* success (200, with successCount/N and one error detail per failed
\* service) iff 0 < successCount < N, and a server error (500) iff
\* successCount = 0; a partial failure never has an error status.
C1_VerdictBySuccessCount ==
    \A r \in Reqs :
        LET q == req[r]
            N == Len(q.services)
        IN  LoopDone(q) =>
                /\ N >= 1
                /\ q.outcome \in {"full", "partial", "failed"}
                /\ (q.outcome = "full") <=> (q.successCount = N)
                /\ (q.outcome = "partial") <=>
                       (0 < q.successCount /\ q.successCount < N)
                /\ (q.outcome = "failed") <=> (q.successCount = 0)
                /\ (q.status = 200) <=> (q.outcome \in {"full", "partial"})
                /\ (q.status = 500) <=> (q.outcome = "failed")
                /\ Len(q.errorMessages) = N - q.successCount

\* Witness of C1: three services, exactly one failed, partial success, 200.
C1_Witness ==
    \E r \in Reqs :
        /\ LoopDone(req[r])
        /\ Len(req[r].services) = 3
        /\ req[r].successCount = 2
        /\ req[r].outcome = "partial"
        /\ req[r].status = 200

\* An external command has been issued for the request.
CommandIssued(q) == q.enumCalls > 0 \/ q.attempted # <<>> \/ q.svcLog # <<>>

\* C2: for /pac and /global no external command (enumeration or proxy
\* configuration) is issued unless decoding and validation of the payload
\* both succeeded; a request failing either ends with 400 and no command.
C2_NoCommandBeforeValidation ==
    \A r \in Reqs :
        LET q == req[r]
        IN  q.kind \in {"pac", "global"} =>
                /\ q.pc \in {"decode", "validate"} => ~CommandIssued(q)
                /\ CommandIssued(q) => q.decodeOk /\ PayloadValid(q)
                /\ (q.pc = "done" /\ ~(q.decodeOk /\ PayloadValid(q))) =>
                       q.status = 400 /\ ~CommandIssued(q)

\* Witness of C2: a decoded /global request rejected by the Validator.
C2_Witness ==
    \E r \in Reqs :
        /\ req[r].kind = "global"
        /\ req[r].pc = "done"
        /\ req[r].decodeOk
        /\ ~PayloadValid(req[r])
        /\ req[r].status = 400

\* C3: every enumerated service is attempted exactly once, one at a time
\* and in enumerated order, whichever earlier services failed; when the
\* verdict is rendered, successCount plus the number of recorded errors is
\* the number of enumerated services.
C3_EveryServiceOnce ==
    \A r \in Reqs :
        LET q == req[r]
        IN  /\ q.pc \in {"call", "returned"} =>
                /\ q.idx \in 1..Len(q.services)
                /\ q.attempted = SubSeq(q.services, 1, q.idx)
                /\ q.successCount + Len(q.errorMessages) = q.idx - 1
                /\ \A i \in 1..Len(q.svcLog) :
                       q.svcLog[i].argv[3] = q.services[q.idx]
            /\ (q.pc = "done" /\ q.services # <<>>) =>
                /\ q.attempted = q.services
                /\ q.successCount + Len(q.errorMessages) = Len(q.services)

\* Witness of C3: three services, the first failed, the other two succeeded.
C3_Witness ==
    \E r \in Reqs :
        /\ LoopDone(req[r])
        /\ Len(req[r].services) = 3
        /\ req[r].errorMessages = <<req[r].services[1]>>
        /\ req[r].successCount = 2

\* The options of the five reset commands, in the order of the claim.
ResetOptions ==
    <<"-setautoproxystate", "-setproxyautodiscovery", "-setwebproxystate",
      "-setsecurewebproxystate", "-setsocksfirewallproxystate">>

\* Every command of the log succeeded.
AllOk(log) == \A i \in 1..Len(log) : log[i].ok

\* A service is being driven through its commands, or has just been.
InService(q) == q.pc \in {"call", "returned"} \/ LoopDone(q)

\* C4: for every request type and service the reset commands are issued in
\* the order autoproxy-state off, auto-discovery off, web proxy off, secure
\* web proxy off, SOCKS proxy off; the first failing command ends all
\* commands for the service, which is recorded as failed; for Disable a
\* service succeeds iff all five reset commands succeed.
C4_ResetSequence ==
    \A r \in Reqs :
        LET q   == req[r]
            log == q.svcLog
        IN  InService(q) =>
                /\ \A i \in 1..Len(log) :
                       i <= 5 => log[i].argv =
                           <<"networksetup", ResetOptions[i],
                             q.services[q.idx], "off">>
                /\ \A i \in 1..(Len(log) - 1) : log[i].ok
                /\ ~AllOk(log) => q.pc # "call"
                /\ q.pc = "returned" => (q.callErr <=> ~AllOk(log))
                /\ (LoopDone(q) /\ ~AllOk(log)) =>
                       /\ q.errorMessages # <<>>
                       /\ q.errorMessages[Len(q.errorMessages)]
                              = q.services[q.idx]
                /\ (q.kind = "off" /\ q.pc = "returned") =>
                       (~q.callErr <=> (Len(log) = 5 /\ AllOk(log)))

\* Witness of C4: a /pac service whose third reset command failed.
C4_Witness ==
    \E r \in Reqs :
        /\ req[r].kind = "pac"
        /\ req[r].pc = "returned"
        /\ Len(req[r].svcLog) = 3
        /\ ~req[r].svcLog[3].ok
        /\ req[r].callErr

\* C5: for PacMode, only after the whole reset succeeded, set-autoproxy-URL,
\* autoproxy-state on, auto-discovery on are issued in that order; the
\* service succeeds iff all succeed; after a failure no later step and no
\* compensating command is issued.
C5_PacSequence ==
    \A r \in Reqs :
        LET q   == req[r]
            log == q.svcLog
            svc == q.services[q.idx]
        IN  (q.kind = "pac" /\ InService(q)) =>
                /\ Len(log) <= 8
                /\ Len(log) >= 6 => AllOk(SubSeq(log, 1, 5))
                /\ Len(log) >= 6 => log[6].argv =
                       <<"networksetup", "-setautoproxyurl", svc,
                         Str(q.url)>>
                /\ Len(log) >= 7 => log[7].argv =
                       <<"networksetup", "-setautoproxystate", svc, "on">>
                /\ Len(log) >= 8 => log[8].argv =
                       <<"networksetup", "-setproxyautodiscovery", svc,
                         "on">>
                /\ \A i \in 1..(Len(log) - 1) : log[i].ok
                /\ q.pc = "returned" =>
                       (~q.callErr <=> (Len(log) = 8 /\ AllOk(log)))
                /\ (q.pc = "returned" /\ q.callErr) => ~log[Len(log)].ok

\* Witness of C5: the URL was set and enabling the state failed; nothing
\* follows.
C5_Witness ==
    \E r \in Reqs :
        /\ req[r].kind = "pac"
        /\ req[r].pc = "returned"
        /\ Len(req[r].svcLog) = 7
        /\ ~req[r].svcLog[7].ok
        /\ req[r].callErr

\* The tokens expected for each bypass string of BypassSet.
ExpectedTokens(bypass) ==
    CASE bypass = <<>> -> <<>>
      [] bypass = <<" ">> -> <<>>
      [] bypass = <<"a", ",", "b">> -> <<"a", "b">>
      [] bypass = <<"a", " ", "b">> -> <<"a", "b">>
      [] bypass = <<"a", ",", " ", "b", " ", "c">> -> <<"a", "b c">>
      [] bypass = <<"<", "l", ">">> -> <<"<l>">>
      [] bypass = <<"a", "$">> -> <<"a$">>
      [] bypass = <<"a", "<", "b">> -> <<"a<b">>

\* C6: for GlobalMode, only after the whole reset succeeded, the web,
\* secure-web and SOCKS proxy commands are issued in that order with host
\* and port; then exactly one bypass-domain command with the full token
\* list iff the list is non-empty after blank tokens are dropped; the
\* service succeeds iff every issued command succeeds, and the first
\* failure stops the commands of the service.
C6_GlobalSequence ==
    \A r \in Reqs :
        LET q      == req[r]
            log    == q.svcLog
            svc    == q.services[q.idx]
            tokens == ExpectedTokens(q.bypass)
            total  == IF tokens # <<>> THEN 9 ELSE 8
        IN  (q.kind = "global" /\ InService(q)) =>
                /\ Len(log) <= total
                /\ Len(log) >= 6 => AllOk(SubSeq(log, 1, 5))
                /\ Len(log) >= 6 => log[6].argv =
                       <<"networksetup", "-setwebproxy", svc,
                         Str(q.host), Str(q.port)>>
                /\ Len(log) >= 7 => log[7].argv =
                       <<"networksetup", "-setsecurewebproxy", svc,
                         Str(q.host), Str(q.port)>>
                /\ Len(log) >= 8 => log[8].argv =
                       <<"networksetup", "-setsocksfirewallproxy", svc,
                         Str(q.host), Str(q.port)>>
                /\ Len(log) >= 9 => log[9].argv =
                       <<"networksetup", "-setproxybypassdomains", svc>>
                           \o tokens
                /\ \A i \in 1..(Len(log) - 1) : log[i].ok
                /\ q.pc = "returned" =>
                       (~q.callErr <=> (Len(log) = total /\ AllOk(log)))

\* Witness of C6: a service configured with the bypass tokens "a", "b c".
C6_Witness ==
    \E r \in Reqs :
        /\ req[r].kind = "global"
        /\ req[r].pc = "returned"
        /\ ~req[r].callErr
        /\ Len(req[r].svcLog) = 9
        /\ req[r].svcLog[9].argv =
               <<"networksetup", "-setproxybypassdomains",
                 req[r].services[req[r].idx], "a", "b c">>

\* C7: when the enumeration command fails or yields no service, the request
\* ends with a server error from the enumeration and no proxy-configuration
\* command is issued; an empty list never becomes a success.
C7_EnumerationFailure ==
    \A r \in Reqs :
        LET q == req[r]
        IN  /\ (q.enumCalls > 0 /\ q.services = <<>>) =>
                /\ q.pc = "done"
                /\ q.status = 500
                /\ q.outcome = "enumerror"
                /\ q.detail \in {"exit status 1", "no network services found"}
                /\ q.attempted = <<>> /\ q.svcLog = <<>>
            /\ q.status = 200 => Len(q.services) >= 1
            /\ q.attempted # <<>> => q.services # <<>>

\* Witness of C7: /off answered 500 because no service was parsed.
C7_Witness ==
    \E r \in Reqs :
        /\ req[r].kind = "off"
        /\ req[r].pc = "done"
        /\ req[r].status = 500
        /\ req[r].detail = "no network services found"

(***************************************************************************)
(* Properties of the socket lifecycle, under SpecSock and SpecSockFair.    *)
(***************************************************************************)
\* The endpoint file is missing and a recheck notification waits for the
\* idle handler, while main waits for a termination signal; n listeners
\* have been created so far.
DeletedAndNotified(n) ==
    /\ sock.mainpc = "wait"
    /\ sock.hpc = "idle"
    /\ sock.sigChan = 1
    /\ sock.path.kind = "absent"
    /\ sock.nextId = n

\* Listener n has been bound at the path and serves the handlers.
Rebound(n) == sock.servePc[n] = "serving"

\* A connection is routed only to the listener s.listener designates, whose
\* socket file is at the path.
RoutedToCurrent ==
    [][\A l \in Lids :
           sock'.inflight[l] > sock.inflight[l] =>
               /\ sock.sListener = <<l>>
               /\ sock.path.kind = "socket" /\ sock.path.owner = l]_vars

InRebind == {"rb_remove", "rb_listen", "rb_chmod", "rb_assign", "rb_sleep",
             "rb_err"}

\* C9: a recheck that finds the endpoint file changes nothing (no file
\* removed, no listener created, s.listener unchanged); recreateListener is
\* entered only from a recheck that found the path missing.
C9_RecheckNoop ==
    /\ [][(sock.hpc = "stat" /\ sock'.hpc # "stat"
              /\ sock.path.kind # "absent") =>
             /\ sock'.hpc = "idle"
             /\ sock'.path = sock.path
             /\ sock'.lstate = sock.lstate
             /\ sock'.unlinked = sock.unlinked
             /\ sock'.servePc = sock.servePc
             /\ sock'.sListener = sock.sListener
             /\ sock'.nextId = sock.nextId]_vars
    /\ [][(sock'.hpc \in InRebind /\ sock.hpc \notin InRebind) =>
             (sock.hpc = "stat" /\ sock.path.kind = "absent")]_vars
    /\ [](sock.hpc \in InRebind => sock.lastStat = "missing")

\* Witness of C9: a recheck found the file of the initial listener and went
\* back to waiting; nothing was created.
C9_Witness ==
    /\ sock.lastStat = "exists"
    /\ sock.hpc = "idle"
    /\ sock.mainpc = "wait"
    /\ sock.nextId = 1
    /\ sock.sListener = <<0>>
    /\ sock.path = [kind |-> "socket", owner |-> 0, perm |-> TRUE]

C11_GracefulOnCurrent ==
    \A l \in Lids :
        (sock.atSignal = <<l>> /\ sock.mainpc = "exited") =>
            sock.inflight[l] = 0

(***************************************************************************)
(* Properties of the Validator, under SpecApply.                           *)
(***************************************************************************)
\* The payload of the request went past the Validator.
Accepted(q) ==
    \/ q.pc \in {"enumerate", "call", "returned"}
    \/ q.pc = "done" /\ q.status # 400

\* The payload of the request was decoded and the Validator refused it.
Rejected(q) == q.pc = "done" /\ q.decodeOk /\ q.status = 400

\* A non-negative integer in text form: one or more decimal digits.
NonNegativeInteger(port) ==
    /\ port # <<>>
    /\ \A i \in 1..Len(port) : port[i] \in Digits

\* C12: for every port text, the validation of a global-mode request whose
\* host and bypass string are acceptable succeeds iff the port text is a
\* non-negative integer; a signed text such as "-1" is rejected.
C12_PortNonNegative ==
    \A r \in Reqs :
        LET q == req[r]
        IN  (q.kind = "global" /\ q.decodeOk) =>
                /\ Accepted(q) => NonNegativeInteger(q.port)
                /\ (Rejected(q) /\ validateGlobalProxy(q.host, <<"0">>,
                                                       q.bypass)) =>
                       ~NonNegativeInteger(q.port)

\* The dangerous characters.
Dangerous ==
    {"&", "|", ";", Backquote, "$", "(", ")", "{", "}", "[", "]", "<", ">",
     "\\"}

\* A text the Validator has to refuse: it holds a dangerous character and
\* is not a reserved token wrapped in angle brackets.
MustReject(t) ==
    /\ ContainsAny(t, Dangerous)
    /\ ~(HasPrefix(t, <<"<">>) /\ HasSuffix(t, <<">">>))

\* Every piece of the texts a request can carry.
Pieces(t) == { SubSeq(t, i, j) : i \in 1..Len(t), j \in 1..Len(t) }

\* The command arguments that must never be seen: the pieces of the
\* request texts that the Validator has to refuse.
RefusedArguments ==
    { Str(t) : t \in { u \in UNION { Pieces(x) :
                                       x \in UrlSet \cup HostSet \cup BypassSet } :
                         MustReject(u) } }

\* C13: no request-derived text (PAC url, host, bypass token) that holds a
\* dangerous character (& | ; backquote $ ( ) { } [ ] < > backslash) and is
\* not a reserved token wrapped as <token> reaches an argument of an
\* external command: the Validator rejects the request.
C13_DangerousRejected ==
    \A r \in Reqs :
        \A i \in 1..Len(req[r].svcLog) :
            LET argv == req[r].svcLog[i].argv
            IN  \A j \in 4..Len(argv) : argv[j] \notin RefusedArguments

\* The texts of a list of tokens.
Texts(tokens) == [i \in 1..Len(tokens) |-> Str(tokens[i])]

\* C14: the bypass string is split on commas if it holds one and on spaces
\* otherwise, each token trimmed, blank tokens dropped, order kept; and the
\* token list of the bypass-domain command is exactly the token list the
\* Validator checked for the same string (no command when it is empty).
C14_SameTokens ==
    \A r \in Reqs :
        LET q       == req[r]
            log     == q.svcLog
            checked == Texts(checkedDomains(q.bypass))
        IN  (q.kind = "global" /\ InService(q)) =>
                /\ checked = ExpectedTokens(q.bypass)
                /\ Len(log) >= 9 =>
                       /\ log[9].argv[2] = "-setproxybypassdomains"
                       /\ SubSeq(log[9].argv, 4, Len(log[9].argv)) = checked
                /\ (q.pc = "returned" /\ ~q.callErr) =>
                       Len(log) = IF checked = <<>> THEN 8 ELSE 9

\* Witness of C14: a space-separated string applied as the tokens "a", "b".
C14_Witness ==
    \E r \in Reqs :
        /\ req[r].kind = "global"
        /\ req[r].bypass = <<"a", " ", "b">>
        /\ Len(req[r].svcLog) = 9
        /\ SubSeq(req[r].svcLog[9].argv, 4, 5) = <<"a", "b">>

(***************************************************************************)
(* Properties of the rebinding, under SpecSock.                            *)
(***************************************************************************)
\* The listeners created by the process that are open.
OpenListeners == { l \in Lids : sock.lstate[l] = "open" }

\* recreateListener has bound a new listener and not yet stored it in
\* s.listener.
NewBound == sock.hpc \in {"rb_chmod", "rb_assign"}

\* C15: rebinding never closes the previous listener: before shutdown,
\* after k successful rebindings (k + 1 listeners have been stored in
\* s.listener) exactly those k + 1 listeners are open, one leaked per
\* rebinding; and at the moment a new listener is bound the previous one is
\* still open.
C15_OneLeakPerRebinding ==
    sock.mainpc \in {"chmod", "serve", "install", "wait", "shutdown"} =>
        /\ ~NewBound =>
               /\ OpenListeners = sock.assigned
               /\ Cardinality(OpenListeners) = Cardinality(sock.assigned)
        /\ NewBound =>
               /\ sock.lstate[sock.sListener[1]] = "open"
               /\ sock.lstate[sock.newL] = "open"
               /\ OpenListeners = sock.assigned \cup {sock.newL}

\* Witness of C15: two rebindings have succeeded and three listeners are
\* open.
C15_Witness ==
    /\ sock.mainpc = "wait"
    /\ sock.hpc = "idle"
    /\ sock.sListener = <<2>>
    /\ sock.assigned = {0, 1, 2}
    /\ OpenListeners = {0, 1, 2}

\* main is at its write of s.listener (createSocket, line 396).
MainWrites == sock.mainpc = "listen"

\* main is at its read of s.listener (server.listener.Close(), line 513).
MainReads == sock.mainpc = "close"

\* The goroutine of startSignalHandler, the other writer of s.listener
\* (recreateListener, line 467), has been started.
HandlerStarted == sock.hpc # "off"

\* C16: s.listener has two writers, startup and the recheck handler, that
\* never write concurrently (the handler is started only after the initial
\* socket creation has finished; the rebindings run one at a time on the
\* handler goroutine, a notification arriving meanwhile waits in the
\* channel), and no reader reads s.listener while the endpoint is half
\* updated, that is while a new listener is bound to the path and
\* s.listener still designates the previous one.
C16_SerializedEndpoint ==
    /\ HandlerStarted =>
           sock.mainpc \notin {"start", "listen", "chmod", "serve", "install"}
    /\ ~(MainWrites /\ sock.hpc \in InRebind)
    /\ sock.sigChan \in {0, 1}
    /\ ~(MainReads /\ NewBound)

\* C17: one listener is current at any time: s.listener is set by the
\* initial bind and replaced only by a rebinding whose bind and permission
\* steps both succeeded, and then it designates the listener bound to the
\* socket file at the path (a socket file at the path is the current
\* listener's); a rebinding that fails at the bind or at the permission
\* step leaves s.listener as it was, and a new listener whose permission
\* step failed is closed and never serves.
C17_CurrentAfterSuccess ==
    /\ [][sock'.sListener # sock.sListener =>
             \/ /\ sock.mainpc = "listen"
                /\ sock.sListener = <<>>
                /\ sock'.sListener = <<0>>
                /\ sock'.path = SocketOf(0)
             \/ /\ sock.hpc = "rb_assign"
                /\ sock'.sListener = <<sock.newL>>
                /\ sock.lstate[sock.newL] = "open"
                /\ sock.permOk[sock.newL]
                /\ sock.path.kind = "socket" =>
                       sock.path = [SocketOf(sock.newL) EXCEPT !.perm = TRUE]]_vars
    /\ [][(sock'.hpc = "rb_err" /\ sock.hpc # "rb_err") =>
             /\ sock.hpc \in {"rb_listen", "rb_chmod"}
             /\ sock'.sListener = sock.sListener
             /\ sock.hpc = "rb_chmod" =>
                    /\ sock'.lstate[sock.newL] = "closed"
                    /\ sock'.servePc[sock.newL] = "none"]_vars
    /\ [](Len(sock.sListener) <= 1)
    /\ []((sock.path.kind = "socket" /\ ~NewBound) =>
              sock.sListener = <<sock.path.owner>>)
    /\ [](\A l \in Lids :
              (l > 0 /\ l < sock.nextId /\ ~sock.permOk[l]
                   /\ ~(NewBound /\ sock.newL = l)) =>
                  /\ sock.lstate[l] = "closed"
                  /\ sock.servePc[l] = "none"
                  /\ l \notin sock.assigned)

\* Witness of C17: the permission step of a rebinding has failed; the new
\* listener is closed and the initial listener is still the current one.
C17_Witness ==
    /\ sock.mainpc = "wait"
    /\ sock.hpc = "rb_err"
    /\ sock.nextId = 2
    /\ sock.newL = 1
    /\ ~sock.permOk[1]
    /\ sock.lstate[1] = "closed"
    /\ sock.servePc[1] = "none"
    /\ sock.sListener = <<0>>
    /\ sock.lstate[0] = "open"

\* C18: every listener the process serves on, initial or rebound, goes
\* through the same steps in the same order: it is bound only on a path
\* with no file, the permissions are set on its socket file before any
\* serving, and its serving starts only after both; when the clearing, the
\* bind or the permission step fails no serving is started on the
\* listener, and at startup the recheck handler is not installed and the
\* process exits with failure.
C18_OrderedSteps ==
    /\ [][\A l \in Lids :
              (sock.lstate[l] = "none" /\ sock'.lstate[l] # "none") =>
                  /\ sock.path.kind = "absent"
                  /\ sock'.path = SocketOf(l)
                  /\ sock'.lstate[l] = "open"
                  /\ sock.servePc[l] = "none"]_vars
    /\ [][\A l \in Lids :
              (~sock.permOk[l] /\ sock'.permOk[l]) =>
                  /\ sock.lstate[l] = "open"
                  /\ sock.path = SocketOf(l)
                  /\ sock'.path = [SocketOf(l) EXCEPT !.perm = TRUE]
                  /\ sock.servePc[l] = "none"]_vars
    /\ [][\A l \in Lids :
              (sock.servePc[l] = "none" /\ sock'.servePc[l] # "none") =>
                  /\ sock.lstate[l] = "open"
                  /\ sock.permOk[l]
                  /\ sock'.servePc[l] = "spawned"]_vars
    /\ [](\A l \in Lids :
              sock.servePc[l] # "none" =>
                  sock.lstate[l] # "none" /\ sock.permOk[l])
    /\ [](sock.mainpc = "failed" =>
              /\ sock.hpc = "off"
              /\ sock.servePc = [l \in Lids |-> "none"]
              /\ sock.exitCode # 0)

\* Witness of C18: the initial and a rebound listener both serve, the
\* rebound one on a socket file with the permissions set.
C18_Witness ==
    /\ sock.servePc[0] = "serving"
    /\ sock.servePc[1] = "serving"
    /\ sock.permOk[0] /\ sock.permOk[1]
    /\ sock.path = [SocketOf(1) EXCEPT !.perm = TRUE]

\* C19: shutdown and rebinding do not race: when the process has exited
\* normally after a termination signal no socket file is left at the
\* endpoint path, also when a recheck notification is delivered during the
\* shutdown sequence.
C19_NoSocketAfterExit ==
    sock.mainpc = "exited" => sock.path.kind # "socket"

(***************************************************************************)
(* Properties of concurrent requests, under SpecConc.                      *)
(***************************************************************************)
\* Every command of the request, service after service.
RECURSIVE CommandsFrom(_, _)
CommandsFrom(q, i) ==
    IF i > Len(q.services) THEN <<>>
    ELSE ServiceCommands(q, q.services[i]) \o CommandsFrom(q, i + 1)

\* The configuration after the commands have all succeeded one after the
\* other.
RECURSIVE RunAll(_, _)
RunAll(net, cmds) ==
    IF cmds = <<>> THEN net
    ELSE RunAll(Configure(net, Head(cmds), TRUE), Tail(cmds))

\* The configuration after request p and then request q, each run alone.
OneAfterTheOther(p, q) ==
    RunAll(RunAll([s \in DOMAIN netcfg |-> UnsetConfig], CommandsFrom(p, 1)),
           CommandsFrom(q, 1))

\* C20: when two requests have been handled concurrently and all their
\* commands succeeded, the configuration of every service is the one that
\* running the two requests one after the other, in one of the two orders,
\* produces.
C20_SerialOutcome ==
    (\A r \in Reqs : req[r].pc = "done" /\ req[r].outcome = "full") =>
        netcfg \in {OneAfterTheOther(req[1], req[2]),
                    OneAfterTheOther(req[2], req[1])}
====
